---- MODULE Spec2Model ----
(***************************************************************************)
(* Model of stats_rs (src/src/lib.rs): the request-statistics aggregator.  *)
(*                                                                         *)
(* RequestStats wraps one InnerStats behind a parking_lot Mutex.  Producer *)
(* threads call RequestStats::update_stats; snapshot callers (the          *)
(* scheduler thread through send_stats, or any other caller of the public  *)
(* send_stats) call RequestStats::to_stats_and_reset, which probes the     *)
(* hosts without the lock, then locks, builds the Stats value, resets the  *)
(* counters and returns.                                                   *)
(*                                                                         *)
(* init_spider_vars sets the three Global cells (push handle, host         *)
(* callback, base callback) and spawns the scheduler thread, whose loop    *)
(* sleeps, calls the callbacks, calls send_stats (snapshot, serialize,     *)
(* send) and cleans the configured directories.                            *)
(*                                                                         *)
(* The specifications share the actions and differ in the threads and      *)
(* inputs they run: Spec (concurrent producers and snapshot callers),      *)
(* SpecStore (every result and status code), SpecProbe (host probing),     *)
(* SpecWide (latency arithmetic at the full i64 width), SpecSched (one     *)
(* initialization and the scheduler loop with every failure), SpecInit     *)
(* (concurrent initializations) and SpecLive (SpecSched with a producer    *)
(* whose times may overflow, under the fairness of the threads).           *)
(*                                                                         *)
(* f64 values are kept as exact integers counting thousandths (the unit    *)
(* every f64 of a Stats is rounded to, or, for a ping delay, the           *)
(* microseconds it is computed from) together with a NaN flag.             *)
(***************************************************************************)
EXTENDS Integers, Sequences, FiniteSets

\* ------------------------------------------------------------------ bounds

\* record calls a behaviour may begin
MaxRecords == 2
\* to_stats_and_reset calls a behaviour may begin
MaxSnaps == 2

\* ------------------------------------------------------------ input domains

Producers == {"p1", "p2"}
Snappers == {"s1", "s2"}

\* entity.rs RequestResult
RequestResult ==
    {"Successful", "SuccessfulAndCache", "ParseError", "TimeoutError",
     "ConnectionError", "StatusCodeError"}

\* u16 status codes the producers pass; 0 is the "unknown" code
StatusCodes == {0, 200, 500}
RequestTimes == {50}
ResponseTimes == {100}

\* the arguments of one RequestStats::update_stats call
RecordArgs ==
    [request_time : RequestTimes, response_time : ResponseTimes,
     status_code : StatusCodes, result : RequestResult]
\* the calls the producer of the sequential specification makes: every
\* result with status code 200, and a status-code error with every status code
StoreArgs ==
    {a \in RecordArgs : a.status_code = 200 \/ a.result = "StatusCodeError"}
\* the calls the producers of the concurrent specification make: a success
\* and an error
ConcurrentArgs ==
    {a \in RecordArgs :
        a.status_code = 200 /\ a.result \in {"Successful", "TimeoutError"}}
\* the calls the producer of the probing specification makes
ProbeArgs == {a \in ConcurrentArgs : a.result = "Successful"}

\* wall clock (get_now_millis) readings, in ms
ClockValues == {1000, 2600}

\* host strings: one that parses as a SocketAddr, one that parses only as an
\* IpAddr, one that parses as neither
SocketAddrHosts == {"10.0.0.1:8080"}
IpAddrHosts == {"10.0.0.2"}
HostLists == {<<"ssss", "10.0.0.2">>, <<"10.0.0.1:8080">>}
\* elapsed microseconds of a TCP connect that succeeds
ConnectMicros == {600}
\* what the network does with a connect attempt
ConnectOutcomes ==
    [ok : {TRUE}, micros : ConnectMicros] \cup [ok : {FALSE}, micros : {0}]

\* i64 values the callers pass as request_time and response_time when the
\* width matters: i64::MIN, -1, 0, 1, i64::MAX and two millisecond
\* timestamps (1700000000000 and 1700000000050), as four 16-bit limbs, most
\* significant first, the first one signed
I64Min == <<-32768, 0, 0, 0>>
I64Max == <<32767, 65535, 65535, 65535>>
I64Zero == <<0, 0, 0, 0>>
I64One == <<0, 0, 0, 1>>
I64MinusOne == <<-1, 65535, 65535, 65535>>
I64Sent == <<0, 395, 53221, 26624>>
I64Received == <<0, 395, 53221, 26674>>
WideTimes ==
    {I64Min, I64MinusOne, I64Zero, I64One, I64Max, I64Sent, I64Received}

\* callers of init_spider_vars, and the scheduler thread each one's call
\* spawns
Initers == {"i1", "i2"}
LoopOf(i) == IF i = "i1" THEN "s1" ELSE "s2"
\* clean_paths: None, or Some of a path that is no directory followed by a
\* directory
NoPaths == [some |-> FALSE, paths |-> << >>]
CleanPathOptions ==
    {NoPaths, [some |-> TRUE, paths |-> <<"/missing", "/data/stats">>]}
Directories == {"/data/stats"}
\* what GET_HOSTS() returns
HostResults ==
    {[ok |-> FALSE, hosts |-> << >>], [ok |-> TRUE, hosts |-> <<"10.0.0.2">>]}

\* ------------------------------------------------------------------- state

VARIABLES
    inner,      \* the InnerStats inside the Mutex
    lock,       \* holder of the Mutex: "none" or a thread
    pc,         \* [thread -> position]
    snap,       \* [snapper -> locals of its to_stats_and_reset call]
    reports,    \* Stats values returned so far, in the order of return
    now,        \* last reading of the wall clock
    started,    \* history: record calls begun (the i-th call has id i)
    cur,        \* history: [producer -> id of its call in progress, or 0]
    done,       \* history: ids of the record calls that have returned
    heldIds,    \* history: ids of the calls whose update is in the counters
    heldArgs,   \* history: bag of the arguments applied to the counters
    snapsBegun, \* history: to_stats_and_reset calls begun
    audit,      \* history: per report, which calls it covers
    wide,       \* total_latency at its full i64 width, and the build's
                \* overflow checking
    registry,   \* the Global cells SPIDER_STATS_PUSH, GET_HOSTS, GET_BASE
    init,       \* [caller of init_spider_vars -> position and arguments]
    loop,       \* [scheduler thread -> position and locals of its loop]
    sink,       \* messages handed to SPIDER_STATS_PUSH.send, in order
    journal,    \* history: the steps of the reporting cycle in progress
    tally       \* history: init_spider_vars calls begun, returned, spawned

\* the aggregator and its callers
storeVars ==
    <<inner, lock, pc, snap, reports, now, started, cur, done, heldIds, heldArgs,
      snapsBegun, audit>>
\* the registry and the scheduler
schedVars == <<registry, init, loop, sink, journal, tally>>

vars == <<storeVars, wide, schedVars>>

Threads == Producers \cup Snappers

\* ------------------------------------------------------------ f64 values

\* a finite f64, given in thousandths
Finite(m) == [cls |-> "finite", milli |-> m]
\* 0.0 / 0.0
NaN == [cls |-> "nan", milli |-> 0]
\* x / 0.0 for x > 0, x < 0
PosInf == [cls |-> "inf", milli |-> 0]
NegInf == [cls |-> "neginf", milli |-> 0]

\* f64::round of num / den (den > 0): to the nearest integer, halves away
\* from zero
RoundHalfAway(num, den) ==
    IF num >= 0
    THEN (2 * num + den) \div (2 * den)
    ELSE -((2 * (-num) + den) \div (2 * den))

\* (a as f64 / b as f64) then (x * 1000.0).round() / 1000.0, in thousandths
RoundedRatio(a, b) ==
    IF b = 0
    THEN IF a = 0 THEN NaN ELSE IF a > 0 THEN PosInf ELSE NegInf
    ELSE Finite(RoundHalfAway(1000 * a, b))

\* ---------------------------------------------------------- InnerStats

\* InnerStatsVal::default()
InnerStatsValDefault ==
    [total_requests |-> 0,
     successful_requests |-> 0,
     cache_hit |-> 0,
     parse_errors |-> 0,
     timeout_errors |-> 0,
     connection_errors |-> 0,
     status_code_error |-> 0,
     http_status_codes |-> [c \in {} |-> 0],
     total_latency |-> 0]

\* InnerStats::new() at wall-clock time current_time
InnerStatsNew(current_time) ==
    [init_time |-> current_time,
     start_time |-> current_time,
     base |-> InnerStatsValDefault]

\* *map.entry(k).or_insert(0) += 1
EntryIncrement(map, k) ==
    IF k \in DOMAIN map
    THEN [map EXCEPT ![k] = @ + 1]
    ELSE [c \in DOMAIN map \cup {k} |-> IF c = k THEN 1 ELSE map[c]]

\* UpdateResult with a fault: a cached success counts as a cache hit only
UpdateResultCacheOnly(b, result) ==
    CASE result = "Successful" ->
            [b EXCEPT !.successful_requests = @ + 1]
      [] result = "SuccessfulAndCache" ->
            [b EXCEPT !.cache_hit = @ + 1]
      [] result = "ParseError" ->
            [b EXCEPT !.parse_errors = @ + 1]
      [] result = "TimeoutError" ->
            [b EXCEPT !.timeout_errors = @ + 1]
      [] result = "ConnectionError" ->
            [b EXCEPT !.connection_errors = @ + 1]
      [] result = "StatusCodeError" ->
            [b EXCEPT !.status_code_error = @ + 1]

\* UpdateResult with a fault: every success counts as a cache hit
UpdateResultCountsHit(b, result) ==
    CASE result = "Successful" ->
            [b EXCEPT !.successful_requests = @ + 1, !.cache_hit = @ + 1]
      [] result = "SuccessfulAndCache" ->
            [b EXCEPT !.successful_requests = @ + 1, !.cache_hit = @ + 1]
      [] result = "ParseError" ->
            [b EXCEPT !.parse_errors = @ + 1]
      [] result = "TimeoutError" ->
            [b EXCEPT !.timeout_errors = @ + 1]
      [] result = "ConnectionError" ->
            [b EXCEPT !.connection_errors = @ + 1]
      [] result = "StatusCodeError" ->
            [b EXCEPT !.status_code_error = @ + 1]

\* the match on result of InnerStats::update_stats
UpdateResult(b, result) ==
    CASE result = "Successful" ->
            [b EXCEPT !.successful_requests = @ + 1]
      [] result = "SuccessfulAndCache" ->
            [b EXCEPT !.successful_requests = @ + 1, !.cache_hit = @ + 1]
      [] result = "ParseError" ->
            [b EXCEPT !.parse_errors = @ + 1]
      [] result = "TimeoutError" ->
            [b EXCEPT !.timeout_errors = @ + 1]
      [] result = "ConnectionError" ->
            [b EXCEPT !.connection_errors = @ + 1]
      [] result = "StatusCodeError" ->
            [b EXCEPT !.status_code_error = @ + 1]

\* UpdateStatusCodes with a fault: status code 0 is counted like any other
UpdateStatusCodesAll(codes, status_code) ==
    EntryIncrement(codes, status_code)

\* the status-code histogram update of InnerStats::update_stats
UpdateStatusCodes(codes, status_code) ==
    IF status_code # 0 THEN EntryIncrement(codes, status_code) ELSE codes

\* InnerStats::update_stats(&mut self, request_time, response_time,
\* status_code, result): the new self
update_stats(self, request_time, response_time, status_code, result) ==
    LET latency == response_time - request_time
        b1 == [self.base EXCEPT
                  !.total_requests = @ + 1,
                  !.total_latency = @ + latency,
                  !.http_status_codes = UpdateStatusCodes(@, status_code)]
    IN  [self EXCEPT !.base = UpdateResult(b1, result)]

\* u16::to_string: the decimal digits, most significant first
Digits == <<"0", "1", "2", "3", "4", "5", "6", "7", "8", "9">>
RECURSIVE to_string(_)
to_string(n) ==
    IF n < 10 THEN Digits[n + 1]
    ELSE to_string(n \div 10) \o Digits[(n % 10) + 1]

\* http_status_codes.iter().map(|(k, v)| (k.to_string(), *v)).collect()
StringKeyed(codes) ==
    [s \in {to_string(k) : k \in DOMAIN codes} |->
        codes[CHOOSE k \in DOMAIN codes : to_string(k) = s]]

\* error_rate of InnerStats::to_stats_and_reset: the four error counters over
\* total_requests, 0.0 when total_requests is 0, rounded to 3 decimals
ErrorRate(b) ==
    IF b.total_requests > 0
    THEN RoundedRatio(b.parse_errors + b.timeout_errors + b.connection_errors
                        + b.status_code_error, b.total_requests)
    ELSE Finite(0)

\* CacheHitRate with a fault: the hits are divided by total_requests
CacheHitRateOfTotal(b) ==
    IF b.total_requests = 0
    THEN Finite(0)
    ELSE RoundedRatio(b.cache_hit, b.total_requests)

\* cache_hit_rate of InnerStats::to_stats_and_reset
CacheHitRate(b) ==
    IF b.successful_requests = 0
    THEN Finite(0)
    ELSE RoundedRatio(b.cache_hit, b.successful_requests)

\* average_request_latency of InnerStats::to_stats_and_reset:
\*   average_latency = (total_latency as f64 / total_requests as f64) / 1000.0
\*   (average_latency * 1000.0).round() / 1000.0
\* so its thousandths are round(total_latency / total_requests); no guard on
\* total_requests
AverageLatency(b) ==
    IF b.total_requests = 0
    THEN IF b.total_latency = 0 THEN NaN
         ELSE IF b.total_latency > 0 THEN PosInf ELSE NegInf
    ELSE Finite(RoundHalfAway(b.total_latency, b.total_requests))

\* BuildStats with a fault: the run time is measured from the start of the
\* period, not from init_time
BuildStatsSincePeriodStart(self, end_time) ==
    [time_period |-> [start |-> self.start_time, end |-> end_time],
     error_rate |-> ErrorRate(self.base),
     exception_types |->
        [connection_error |-> self.base.connection_errors,
         timeout_error |-> self.base.timeout_errors,
         parse_error |-> self.base.parse_errors,
         status_code_error |-> self.base.status_code_error],
     runtime_duration |-> (end_time - self.start_time) \div 1000,
     total_requests |-> self.base.total_requests,
     cache_hit_rate |-> CacheHitRate(self.base),
     cache_hit |-> self.base.cache_hit,
     http_status_codes |-> StringKeyed(self.base.http_status_codes),
     average_request_latency |-> AverageLatency(self.base),
     hosts_ping_delay |-> [h \in {} |-> 0]]

\* the Stats built by InnerStats::to_stats_and_reset at wall-clock time
\* end_time (base and system_resources, which do not come from the
\* counters, are left out)
BuildStats(self, end_time) ==
    [time_period |-> [start |-> self.start_time, end |-> end_time],
     error_rate |-> ErrorRate(self.base),
     exception_types |->
        [connection_error |-> self.base.connection_errors,
         timeout_error |-> self.base.timeout_errors,
         parse_error |-> self.base.parse_errors,
         status_code_error |-> self.base.status_code_error],
     runtime_duration |-> (end_time - self.init_time) \div 1000,
     total_requests |-> self.base.total_requests,
     cache_hit_rate |-> CacheHitRate(self.base),
     cache_hit |-> self.base.cache_hit,
     http_status_codes |-> StringKeyed(self.base.http_status_codes),
     average_request_latency |-> AverageLatency(self.base),
     hosts_ping_delay |-> [h \in {} |-> 0]]

\* to_stats_and_reset with a fault: start_time is not advanced
to_stats_and_resetKeepsStart(self, end_time) ==
    [stats |-> BuildStats(self, end_time), self |-> self]

\* InnerStats::to_stats_and_reset(&mut self, base): the Stats and the new self
\* (only start_time changes; the counters are cleared by reset)
to_stats_and_reset(self, end_time) ==
    [stats |-> BuildStats(self, end_time),
     self |-> [self EXCEPT !.start_time = end_time]]

\* reset with a fault: total_requests is not cleared
resetKeepsTotal(self) ==
    [self EXCEPT !.base = [InnerStatsValDefault EXCEPT
                              !.total_requests = self.base.total_requests]]

\* InnerStats::reset(&mut self)
reset(self) == [self EXCEPT !.base = InnerStatsValDefault]

\* ------------------------------------------------------------ host probing

\* Duration::from_secs(3)
timeout_secs == 3
\* timeout.as_micros() as u64
TimeoutMicros == timeout_secs * 1000000

\* addr.parse::<SocketAddr>() succeeds
ParsesSocketAddr(addr) == addr \in SocketAddrHosts
\* IpAddr::from_str(addr) succeeds
ParsesIpAddr(addr) == addr \in IpAddrHosts

\* run_test_tcp(addr, port, ping_timeout) when the network answers the connect
\* with net: Ok(elapsed micros) or Err (the port only selects the socket the
\* network is asked to connect)
run_test_tcp(addr, net) ==
    IF ~ParsesSocketAddr(addr) /\ ~ParsesIpAddr(addr)
    THEN [ok |-> FALSE, micros |-> 0]
    ELSE IF net.ok
         THEN [ok |-> TRUE, micros |-> net.micros]
         ELSE [ok |-> FALSE, micros |-> 0]

\* ProbeInsert with a fault: a host whose probe fails gets no entry
ProbeInsertSkipFailed(host_ping, host, net) ==
    LET r == run_test_tcp(host, net)
    IN  IF r.ok
        THEN [h \in DOMAIN host_ping \cup {host} |->
                IF h = host THEN Finite(r.micros) ELSE host_ping[h]]
        ELSE host_ping

\* one iteration of the probing loop of RequestStats::to_stats_and_reset:
\* host_ping after host was probed (ms = connet_ts as f64 / 1000.0, kept in
\* thousandths of a millisecond)
ProbeInsert(host_ping, host, net) ==
    LET r == run_test_tcp(host, net)
        connet_ts == IF r.ok THEN r.micros ELSE TimeoutMicros
    IN  [h \in DOMAIN host_ping \cup {host} |->
            IF h = host THEN Finite(connet_ts) ELSE host_ping[h]]

\* ------------------------------------------------------------ i64 arithmetic

\* a + sign * b on i64 values (sign 1 or -1), limb by limb with carry: the
\* wrapped result and whether the exact result is out of the i64 range
I64Combine(a, b, sign) ==
    LET base == 2^16
        s4 == a[4] + sign * b[4]
        s3 == a[3] + sign * b[3] + (s4 \div base)
        s2 == a[2] + sign * b[2] + (s3 \div base)
        s1 == a[1] + sign * b[1] + (s2 \div base)
    IN  [value |-> <<((s1 + 2^15) % base) - 2^15, s2 % base, s3 % base,
                     s4 % base>>,
         overflow |-> s1 < -(2^15) \/ s1 >= 2^15]

\* response_time - request_time
i64_sub(a, b) == I64Combine(a, b, -1)
\* self.total_latency += latency
i64_add(a, b) == I64Combine(a, b, 1)

\* the latency arithmetic of InnerStats::update_stats on a build with
\* (checks) or without overflow checks: an overflowing operation panics with
\* the checks and wraps without them
WideLatency(total_latency, request_time, response_time, checks) ==
    LET latency == i64_sub(response_time, request_time)
        total == i64_add(total_latency, latency.value)
    IN  IF checks /\ (latency.overflow \/ total.overflow)
        THEN [panic |-> TRUE, total_latency |-> total_latency]
        ELSE [panic |-> FALSE, total_latency |-> total.value]

\* --------------------------------------------------------------- the Mutex

\* MutexFree with a fault: the lock excludes nobody
MutexFreeNoExclusion == TRUE

\* self.inner.lock() can be taken
MutexFree == lock = "none"

\* host_info: Option<(Vec<String>, u16)>
None == [some |-> FALSE, hosts |-> << >>]
Some(hosts) == [some |-> TRUE, hosts |-> hosts]
HostInfos == {None} \cup {Some(hs) : hs \in HostLists}

\* the guard `data` with a fault: it outlives the call
GuardLeaked(s) == s

\* the holder of the Mutex once to_stats_and_reset of s has returned: the
\* guard `data` is dropped at the end of the function
GuardDropped(s) == "none"

\* ------------------------------------------------------------ the registry

\* Global::init with a fault: a cell that is set is overwritten
GlobalInitOverwrites(cell, value) == [ok |-> TRUE, cell |-> value]

\* Global::init(value), OnceCell::set: Ok and the cell holds value if it was
\* unset, Err and the cell is as it was otherwise
GlobalInit(cell, value) ==
    IF cell = "unset"
    THEN [ok |-> TRUE, cell |-> value]
    ELSE [ok |-> FALSE, cell |-> cell]

\* Global::deref, OnceCell::get_unchecked: the value of a cell that is set;
\* on an unset cell the behaviour is undefined: the debug assertion panics,
\* or whatever is in the cell is used as a value
GlobalDeref(cell) ==
    IF cell # "unset" THEN {cell} ELSE {"panic"} \cup Initers

\* `?` with a fault: the error is dropped and the function goes on
TryIgnoresErr(r, next) == next

\* `.map_err(..)?` in init_spider_vars: go on to next, or return the Err
Try(r, next) == IF r.ok THEN next ELSE "err"

\* ------------------------------------------------------------ the scheduler

\* match GET_HOSTS() { Ok(s) => Some((s, config.host_test_port)),
\*                     Err(err) => None }
HostInfoOf(r) == IF r.ok THEN Some(r.hosts) ELSE None

\* an f64 as serde_json writes it: a number, or null when it is not finite
JsonNumber(x) == IF x.cls = "finite" THEN x ELSE [cls |-> "null", milli |-> 0]

\* serde_json::to_string(&stats): the message handed to the push channel
to_json(stats) ==
    [stats EXCEPT
        !.error_rate = JsonNumber(@),
        !.cache_hit_rate = JsonNumber(@),
        !.average_request_latency = JsonNumber(@),
        !.hosts_ping_delay = [h \in DOMAIN @ |-> JsonNumber(@[h])]]

\* send_stats after a send with a fault: a failed send is tried again
AfterSendRetries(ok) == IF ok THEN "clean" ELSE "send"

\* send_stats after a send with a fault: a failed send ends the thread
AfterSendAborts(ok) == IF ok THEN "clean" ELSE "dead"

\* send_stats after SPIDER_STATS_PUSH.send(msg): an Err is logged, and the
\* function goes on to log the message and returns to the loop, which goes
\* on to the clean-up
AfterSend(ok) == "clean"

\* clean::clean_old_files(folder_path, max_ts): Err when folder_path is no
\* directory or when the file system fails (fs_ok is FALSE) while the
\* directory is read and its old files are deleted
clean_old_files(folder_path, fs_ok) == folder_path \in Directories /\ fs_ok

\* ------------------------------------------------------------------ actions

\* a snapper's locals outside a call: hosts (those still to probe), host_ping
\* and d are the locals of to_stats_and_reset; the others are history: given
\* (the host list passed), probes (what the network answered, host by host),
\* must (the record calls that had returned and were in no report when the
\* call began), first (the index of the first report to be returned after
\* the call began), ids and args (the calls in the counters when d was built)
NoSnap == [hosts |-> << >>, host_ping |-> [h \in {} |-> 0], d |-> << >>,
           given |-> << >>, probes |-> << >>,
           must |-> {}, first |-> 0, ids |-> {}, args |-> [a \in {} |-> 0]]

\* a scheduler thread that was not spawned: pc is its position, host the
\* host_info of the cycle, stats the Stats that send_stats holds, paths the
\* clean_paths still to sweep in the cycle, clean_paths the closure's capture
NoLoop == [pc |-> "none", host |-> None, stats |-> << >>, paths |-> << >>,
           clean_paths |-> NoPaths]

\* the journal before the first cycle: cycle counts the cycles begun, open
\* tells whether one is in progress, trail
\* lists the steps the cycle in progress has taken, failed those of them that
\* failed, earlier the steps that failed in the cycles before
NoJournal ==
    [cycle |-> 0, open |-> FALSE, trail |-> << >>, failed |-> {},
     earlier |-> {}]

Init ==
    /\ \E t \in ClockValues :
          /\ \A u \in ClockValues : t <= u
          /\ now = t
          /\ inner = InnerStatsNew(t)
    /\ lock = "none"
    /\ pc = [t \in Threads |-> "idle"]
    /\ snap = [s \in Snappers |-> NoSnap]
    /\ reports = << >>
    /\ started = 0
    /\ cur = [p \in Producers |-> 0]
    /\ done = {}
    /\ heldIds = {}
    /\ heldArgs = [a \in {} |-> 0]
    /\ snapsBegun = 0
    /\ audit = << >>
    /\ wide = [build |-> "unset", total_latency |-> I64Zero, calls |-> 0,
               panics |-> 0]
    /\ registry = [push |-> "unset", get_hosts |-> "unset",
                   get_base |-> "unset"]
    /\ init = [i \in Initers |-> [pc |-> "idle", clean_paths |-> NoPaths]]
    /\ loop = [s \in Snappers |-> NoLoop]
    /\ sink = << >>
    /\ journal = NoJournal
    /\ tally = [first |-> "none", ok |-> 0, err |-> 0, spawned |-> 0]

\* bag b with one more copy of e
BagAdd(b, e) ==
    [x \in DOMAIN b \cup {e} |->
        IF x \in DOMAIN b THEN (IF x = e THEN b[x] + 1 ELSE b[x]) ELSE 1]

\* ids of the record calls some report covers
ReportedIds == UNION {audit[k].ids : k \in DOMAIN audit}

\* a producer thread enters RequestStats::update_stats
RecordBegin(p) ==
    /\ pc[p] = "idle"
    /\ started < MaxRecords
    /\ started' = started + 1
    /\ cur' = [cur EXCEPT ![p] = started + 1]
    /\ pc' = [pc EXCEPT ![p] = "lock"]
    /\ UNCHANGED <<inner, lock, snap, reports, now, done, heldIds, heldArgs,
                   snapsBegun, audit>>

\* self.inner.lock().update_stats(...): the lock is taken, the counters are
\* updated and the guard is dropped
RecordApply(p, a) ==
    /\ pc[p] = "lock"
    /\ MutexFree
    /\ inner' = update_stats(inner, a.request_time, a.response_time,
                             a.status_code, a.result)
    /\ pc' = [pc EXCEPT ![p] = "idle"]
    /\ cur' = [cur EXCEPT ![p] = 0]
    /\ done' = done \cup {cur[p]}
    /\ heldIds' = heldIds \cup {cur[p]}
    /\ heldArgs' = BagAdd(heldArgs, a)
    /\ UNCHANGED <<lock, snap, reports, now, started, snapsBegun, audit>>

\* a thread enters RequestStats::to_stats_and_reset(base, host_info)
SnapCall(s, host_info) ==
    /\ pc[s] = "idle"
    /\ snapsBegun < MaxSnaps
    /\ snapsBegun' = snapsBegun + 1
    /\ snap' = [snap EXCEPT ![s] =
                  [NoSnap EXCEPT
                     !.hosts = IF host_info.some THEN host_info.hosts
                               ELSE << >>,
                     !.given = IF host_info.some THEN host_info.hosts
                               ELSE << >>,
                     !.must = done \ ReportedIds,
                     !.first = Len(reports) + 1]]
    /\ pc' = [pc EXCEPT ![s] = "probe"]
    /\ UNCHANGED <<inner, lock, reports, now, started, cur, done, heldIds,
                   heldArgs, audit>>

\* one iteration of `for host in hosts`: run_test_tcp and host_ping.insert
SnapProbeHost(s, net) ==
    /\ pc[s] = "probe"
    /\ snap[s].hosts # << >>
    /\ snap' = [snap EXCEPT
                  ![s].host_ping = ProbeInsert(@, Head(snap[s].hosts), net),
                  ![s].hosts = Tail(@),
                  ![s].probes = Append(@, [host |-> Head(snap[s].hosts),
                                           net |-> net])]
    /\ UNCHANGED <<inner, lock, pc, reports, now, started, cur, done, heldIds,
                   heldArgs, snapsBegun, audit>>

\* let mut data = self.inner.lock(); let mut d = data.to_stats_and_reset(base)
SnapLock(s, end_time) ==
    /\ pc[s] = "probe"
    /\ snap[s].hosts = << >>
    /\ MutexFree
    /\ end_time >= now
    /\ lock' = s
    /\ now' = end_time
    /\ LET r == to_stats_and_reset(inner, end_time)
       IN  /\ inner' = r.self
           /\ snap' = [snap EXCEPT ![s].d = <<r.stats>>, ![s].ids = heldIds,
                                    ![s].args = heldArgs]
    /\ pc' = [pc EXCEPT ![s] = "built"]
    /\ UNCHANGED <<reports, started, cur, done, heldIds, heldArgs, snapsBegun,
                   audit>>

\* data.reset(); d.hosts_ping_delay = host_ping; d is returned and the guard
\* is dropped
SnapReset(s) ==
    /\ pc[s] = "built"
    /\ inner' = reset(inner)
    /\ heldIds' = {}
    /\ heldArgs' = [a \in {} |-> 0]
    /\ reports' = Append(reports,
                     [snap[s].d[1] EXCEPT
                        !.hosts_ping_delay = snap[s].host_ping])
    /\ audit' = Append(audit,
                   [ids |-> snap[s].ids, args |-> snap[s].args,
                    must |-> snap[s].must, first |-> snap[s].first,
                    given |-> snap[s].given, probes |-> snap[s].probes,
                    begun |-> started])
    /\ lock' = GuardDropped(s)
    /\ snap' = [snap EXCEPT ![s] = NoSnap]
    /\ pc' = [pc EXCEPT ![s] = "idle"]
    /\ UNCHANGED <<now, started, cur, done, snapsBegun>>

\* the journal after step was taken and succeeded (ok) or failed
Note(step, ok) ==
    [journal EXCEPT !.trail = Append(@, step),
                    !.failed = IF ok THEN @ ELSE @ \cup {step}]

\* a thread enters init_spider_vars: push::load_broadcast_chan returns the
\* Sender s
InitCall(i, clean_paths) ==
    /\ init[i].pc = "idle"
    /\ init' = [init EXCEPT ![i] = [pc |-> "init_push",
                                    clean_paths |-> clean_paths]]
    /\ UNCHANGED <<storeVars, wide, registry, loop, sink, journal, tally>>

\* SPIDER_STATS_PUSH.init(s).map_err(..)?
InitPush(i) ==
    /\ init[i].pc = "init_push"
    /\ LET r == GlobalInit(registry.push, i)
       IN  /\ registry' = [registry EXCEPT !.push = r.cell]
           /\ init' = [init EXCEPT ![i].pc = Try(r, "init_hosts")]
           /\ tally' = [tally EXCEPT
                           !.first = IF @ = "none" THEN i ELSE @,
                           !.err = IF Try(r, "init_hosts") = "err"
                                   THEN @ + 1 ELSE @]
    /\ UNCHANGED <<storeVars, wide, loop, sink, journal>>

\* GET_HOSTS.init(get_host_call).map_err(..)?
InitHosts(i) ==
    /\ init[i].pc = "init_hosts"
    /\ LET r == GlobalInit(registry.get_hosts, i)
       IN  /\ registry' = [registry EXCEPT !.get_hosts = r.cell]
           /\ init' = [init EXCEPT ![i].pc = Try(r, "init_base")]
           /\ tally' = [tally EXCEPT
                           !.err = IF Try(r, "init_base") = "err"
                                   THEN @ + 1 ELSE @]
    /\ UNCHANGED <<storeVars, wide, loop, sink, journal>>

\* GET_BASE.init(get_base_call).map_err(..)?
InitBase(i) ==
    /\ init[i].pc = "init_base"
    /\ LET r == GlobalInit(registry.get_base, i)
       IN  /\ registry' = [registry EXCEPT !.get_base = r.cell]
           /\ init' = [init EXCEPT ![i].pc = Try(r, "spawn")]
           /\ tally' = [tally EXCEPT
                           !.err = IF Try(r, "spawn") = "err"
                                   THEN @ + 1 ELSE @]
    /\ UNCHANGED <<storeVars, wide, loop, sink, journal>>

\* thread::spawn(move || loop { .. }); Ok(())
InitSpawn(i) ==
    /\ init[i].pc = "spawn"
    /\ init' = [init EXCEPT ![i].pc = "ok"]
    /\ loop' = [loop EXCEPT ![LoopOf(i)] =
                  [NoLoop EXCEPT !.pc = "sleep",
                                 !.clean_paths = init[i].clean_paths]]
    /\ tally' = [tally EXCEPT !.ok = @ + 1, !.spawned = @ + 1]
    /\ UNCHANGED <<storeVars, wide, registry, sink, journal>>

\* thread::sleep(config.reporting_cycle) returns: a cycle begins
LoopWake(s) ==
    /\ loop[s].pc = "sleep"
    /\ journal.cycle < MaxSnaps
    /\ loop' = [loop EXCEPT ![s].pc = "get_hosts"]
    /\ journal' = [cycle |-> journal.cycle + 1, open |-> TRUE,
                   trail |-> << >>, failed |-> {},
                   earlier |-> journal.earlier \cup journal.failed]
    /\ UNCHANGED <<storeVars, wide, registry, init, sink, tally>>

\* let host = match GET_HOSTS() { .. }, the callback returning r
LoopGetHosts(s, r) ==
    /\ loop[s].pc = "get_hosts"
    /\ \E f \in GlobalDeref(registry.get_hosts) :
          IF f = "panic"
          THEN /\ loop' = [loop EXCEPT ![s].pc = "dead"]
               /\ journal' = journal
          ELSE /\ loop' = [loop EXCEPT ![s].pc = "get_base",
                                       ![s].host = HostInfoOf(r)]
               /\ journal' = Note("get_hosts", r.ok)
    /\ UNCHANGED <<storeVars, wide, registry, init, sink, tally>>

\* let base = GET_BASE()
LoopGetBase(s) ==
    /\ loop[s].pc = "get_base"
    /\ \E f \in GlobalDeref(registry.get_base) :
          IF f = "panic"
          THEN /\ loop' = [loop EXCEPT ![s].pc = "dead"]
               /\ journal' = journal
          ELSE /\ loop' = [loop EXCEPT ![s].pc = "send_stats"]
               /\ journal' = Note("get_base", TRUE)
    /\ UNCHANGED <<storeVars, wide, registry, init, sink, tally>>

\* send_stats(&base, host) calls SPIDER_STATS.to_stats_and_reset(base,
\* host_info)
LoopSendStats(s) ==
    /\ loop[s].pc = "send_stats"
    /\ SnapCall(s, loop[s].host)
    /\ loop' = [loop EXCEPT ![s].pc = "to_stats_and_reset"]
    /\ journal' = Note("call", TRUE)
    /\ UNCHANGED <<wide, registry, init, sink, tally>>

\* the scheduler thread probes a host
LoopProbeHost(s, net) ==
    /\ loop[s].pc = "to_stats_and_reset"
    /\ SnapProbeHost(s, net)
    /\ journal' = Note("probe", TRUE)
    /\ UNCHANGED <<wide, registry, init, loop, sink, tally>>

\* the scheduler thread locks the Mutex and builds the Stats
LoopLock(s, end_time) ==
    /\ loop[s].pc = "to_stats_and_reset"
    /\ SnapLock(s, end_time)
    /\ journal' = Note("snapshot", TRUE)
    /\ UNCHANGED <<wide, registry, init, loop, sink, tally>>

\* to_stats_and_reset resets the counters and returns the Stats to
\* send_stats
LoopStatsReturned(s) ==
    /\ loop[s].pc = "to_stats_and_reset"
    /\ SnapReset(s)
    /\ loop' = [loop EXCEPT ![s].pc = "send",
                            ![s].stats = <<reports'[Len(reports')]>>]
    /\ journal' = Note("reset", TRUE)
    /\ UNCHANGED <<wide, registry, init, sink, tally>>

\* let msg = serde_json::to_string(&stats).unwrap();
\* if let Err(err) = SPIDER_STATS_PUSH.send(msg) { info!(..) }; the message
\* is logged and send_stats returns; ok tells whether the channel took the
\* message
LoopPush(s, ok) ==
    /\ loop[s].pc = "send"
    /\ \E h \in GlobalDeref(registry.push) :
          IF h = "panic"
          THEN /\ loop' = [loop EXCEPT ![s].pc = "dead"]
               /\ UNCHANGED <<sink, journal>>
          ELSE /\ sink' = Append(sink, [msg |-> to_json(loop[s].stats[1]),
                                        ok |-> ok, chan |-> h])
               /\ loop' = [loop EXCEPT
                              ![s].pc = AfterSend(ok),
                              ![s].paths = IF loop[s].clean_paths.some
                                           THEN loop[s].clean_paths.paths
                                           ELSE << >>]
               /\ journal' = Note("send", ok)
    /\ UNCHANGED <<storeVars, wide, registry, init, tally>>

\* one iteration of `for p in clean_paths`: clean::clean_old_files(p, *max_ts),
\* an Err is logged
LoopClean(s, fs_ok) ==
    /\ loop[s].pc = "clean"
    /\ loop[s].paths # << >>
    /\ loop' = [loop EXCEPT ![s].paths = Tail(@)]
    /\ journal' = Note("clean", clean_old_files(Head(loop[s].paths), fs_ok))
    /\ UNCHANGED <<storeVars, wide, registry, init, sink, tally>>

\* the end of the loop body: the thread goes back to thread::sleep
LoopCycleEnd(s) ==
    /\ loop[s].pc = "clean"
    /\ loop[s].paths = << >>
    /\ loop' = [loop EXCEPT ![s].pc = "sleep", ![s].stats = << >>,
                            ![s].host = None]
    /\ journal' = [journal EXCEPT !.open = FALSE]
    /\ UNCHANGED <<storeVars, wide, registry, init, sink, tally>>

\* producers and snapshot callers running concurrently; the snapshot callers
\* pass no host list
Next ==
    \/ \E p \in Producers : RecordBegin(p)
         /\ UNCHANGED <<wide, schedVars>>
    \/ \E p \in Producers, a \in ConcurrentArgs : RecordApply(p, a)
         /\ UNCHANGED <<wide, schedVars>>
    \/ \E s \in Snappers : SnapCall(s, None)
         /\ UNCHANGED <<wide, schedVars>>
    \/ \E s \in Snappers, end_time \in ClockValues : SnapLock(s, end_time)
         /\ UNCHANGED <<wide, schedVars>>
    \/ \E s \in Snappers : SnapReset(s)
         /\ UNCHANGED <<wide, schedVars>>

Spec == Init /\ [][Next]_vars

\* one producer and one snapshot caller that passes no host list, with the
\* arguments of StoreArgs
NextStore ==
    \/ RecordBegin("p1")
         /\ UNCHANGED <<wide, schedVars>>
    \/ \E a \in StoreArgs : RecordApply("p1", a)
         /\ UNCHANGED <<wide, schedVars>>
    \/ SnapCall("s1", None)
         /\ UNCHANGED <<wide, schedVars>>
    \/ \E end_time \in ClockValues : SnapLock("s1", end_time)
         /\ UNCHANGED <<wide, schedVars>>
    \/ SnapReset("s1")
         /\ UNCHANGED <<wide, schedVars>>

SpecStore == Init /\ [][NextStore]_vars

\* one snapshot caller that passes every host_info, and one producer
NextProbe ==
    \/ RecordBegin("p1")
         /\ UNCHANGED <<wide, schedVars>>
    \/ \E a \in ProbeArgs : RecordApply("p1", a)
         /\ UNCHANGED <<wide, schedVars>>
    \/ \E host_info \in HostInfos : SnapCall("s1", host_info)
         /\ UNCHANGED <<wide, schedVars>>
    \/ \E net \in ConnectOutcomes : SnapProbeHost("s1", net)
         /\ UNCHANGED <<wide, schedVars>>
    \/ \E end_time \in ClockValues : SnapLock("s1", end_time)
         /\ UNCHANGED <<wide, schedVars>>
    \/ SnapReset("s1")
         /\ UNCHANGED <<wide, schedVars>>

SpecProbe == Init /\ [][NextProbe]_vars

\* one call of init_spider_vars, the scheduler thread it spawns with every
\* outcome of the callback, the probes, the send and the clean-up, and one
\* producer
NextSched ==
    \/ \E clean_paths \in CleanPathOptions : InitCall("i1", clean_paths)
    \/ InitPush("i1")
    \/ InitHosts("i1")
    \/ InitBase("i1")
    \/ InitSpawn("i1")
    \/ LoopWake("s1")
    \/ \E r \in HostResults : LoopGetHosts("s1", r)
    \/ LoopGetBase("s1")
    \/ LoopSendStats("s1")
    \/ \E net \in ConnectOutcomes : LoopProbeHost("s1", net)
    \/ LoopLock("s1", now)
    \/ LoopStatsReturned("s1")
    \/ \E ok \in BOOLEAN : LoopPush("s1", ok)
    \/ \E fs_ok \in BOOLEAN : LoopClean("s1", fs_ok)
    \/ LoopCycleEnd("s1")
    \/ RecordBegin("p1")
         /\ UNCHANGED <<wide, schedVars>>
    \/ \E a \in ProbeArgs : RecordApply("p1", a)
         /\ UNCHANGED <<wide, schedVars>>

SpecSched == Init /\ [][NextSched]_vars

\* two concurrent callers of init_spider_vars and the scheduler threads they
\* spawn; the callback, the probes, the send and the clean-up succeed
NextInit ==
    \/ \E i \in Initers, clean_paths \in CleanPathOptions \ {NoPaths} :
          InitCall(i, clean_paths)
    \/ \E i \in Initers : InitPush(i)
    \/ \E i \in Initers : InitHosts(i)
    \/ \E i \in Initers : InitBase(i)
    \/ \E i \in Initers : InitSpawn(i)
    \/ \E s \in Snappers : LoopWake(s)
    \/ \E s \in Snappers, r \in {x \in HostResults : x.ok} :
          LoopGetHosts(s, r)
    \/ \E s \in Snappers : LoopGetBase(s)
    \/ \E s \in Snappers : LoopSendStats(s)
    \/ \E s \in Snappers, net \in {x \in ConnectOutcomes : x.ok} :
          LoopProbeHost(s, net)
    \/ \E s \in Snappers : LoopLock(s, now)
    \/ \E s \in Snappers : LoopStatsReturned(s)
    \/ \E s \in Snappers : LoopPush(s, TRUE)
    \/ \E s \in Snappers : LoopClean(s, TRUE)
    \/ \E s \in Snappers : LoopCycleEnd(s)

SpecInit == Init /\ [][NextInit]_vars

\* RequestStats::update_stats with request and response times over the whole
\* i64 range: total_latency is kept at full width; the build (with or
\* without overflow checks) is fixed by the first call.  A panic unwinds the
\* calling thread and drops the guard, so later calls go on.
RecordWide(request_time, response_time, checks) ==
    /\ wide.calls < MaxRecords
    /\ wide.build \in {"unset", IF checks THEN "checked" ELSE "wrapping"}
    /\ LET r == WideLatency(wide.total_latency, request_time, response_time,
                            checks)
       IN  wide' = [build |-> IF checks THEN "checked" ELSE "wrapping",
                    total_latency |-> r.total_latency,
                    calls |-> wide.calls + 1,
                    panics |-> wide.panics + (IF r.panic THEN 1 ELSE 0)]
    /\ UNCHANGED <<storeVars, schedVars>>

NextWide ==
    \E request_time \in WideTimes, response_time \in WideTimes,
       checks \in BOOLEAN :
        RecordWide(request_time, response_time, checks)

SpecWide == Init /\ [][NextWide]_vars

\* RequestStats::update_stats on a build with overflow checks, called with
\* times whose difference does not fit an i64: the lock is taken,
\* total_requests += 1 is done, response_time - request_time panics; the
\* unwinding drops the guard (a parking_lot Mutex is not poisoned) and ends
\* the calling thread, whose call never returns
RecordOverflow(p, request_time, response_time) ==
    /\ pc[p] = "lock"
    /\ MutexFree
    /\ i64_sub(response_time, request_time).overflow
    /\ inner' = [inner EXCEPT !.base.total_requests = @ + 1]
    /\ pc' = [pc EXCEPT ![p] = "panicked"]
    /\ UNCHANGED <<lock, snap, reports, now, started, cur, done, heldIds,
                   heldArgs, snapsBegun, audit>>

\* one step of the scheduler thread s: the sleep ending, a callback, a probe,
\* the push or the sweep returning, with success or with failure
LoopStep(s) ==
    \/ LoopWake(s)
    \/ \E r \in HostResults : LoopGetHosts(s, r)
    \/ LoopGetBase(s)
    \/ LoopSendStats(s)
    \/ \E net \in ConnectOutcomes : LoopProbeHost(s, net)
    \/ LoopLock(s, now)
    \/ LoopStatsReturned(s)
    \/ \E ok \in BOOLEAN : LoopPush(s, ok)
    \/ \E fs_ok \in BOOLEAN : LoopClean(s, fs_ok)
    \/ LoopCycleEnd(s)

\* the producer p, waiting in self.inner.lock(), gets the lock and runs
\* InnerStats::update_stats to its return or to its panic
RecordStep(p) ==
    /\ \/ \E a \in ProbeArgs : RecordApply(p, a)
       \/ \E request_time \in WideTimes, response_time \in WideTimes :
             RecordOverflow(p, request_time, response_time)
    /\ UNCHANGED <<wide, schedVars>>

\* one call of init_spider_vars, the scheduler thread it spawns and one
\* producer thread whose times range over the whole i64
NextLive ==
    \/ \E clean_paths \in CleanPathOptions : InitCall("i1", clean_paths)
    \/ InitPush("i1")
    \/ InitHosts("i1")
    \/ InitBase("i1")
    \/ InitSpawn("i1")
    \/ LoopStep("s1")
    \/ RecordBegin("p1")
         /\ UNCHANGED <<wide, schedVars>>
    \/ RecordStep("p1")

\* the scheduler thread keeps running and its collaborators return (weak
\* fairness of its steps); a thread that waits for the parking_lot Mutex,
\* which is released again and again and is eventually fair, gets it (strong
\* fairness of the record step).  Nothing makes a thread call
\* init_spider_vars or update_stats.
SpecLive ==
    /\ Init
    /\ [][NextLive]_vars
    /\ WF_vars(LoopStep("s1"))
    /\ SF_vars(RecordStep("p1"))

\* ------------------------------------------------------------------ claims

\* the sum of total_requests over the first n reports
RECURSIVE ReportedTotal(_)
ReportedTotal(n) ==
    IF n = 0 THEN 0 ELSE reports[n].total_requests + ReportedTotal(n - 1)

\* the ids of the record calls covered by reports i..j
IdsOf(i, j) == UNION {audit[k].ids : k \in i..j}

CategorySum(b) ==
    b.successful_requests + b.parse_errors + b.timeout_errors
        + b.connection_errors + b.status_code_error

\* the number of elements of bag b
RECURSIVE BagSize(_)
BagSize(b) ==
    IF DOMAIN b = {} THEN 0
    ELSE LET x == CHOOSE x \in DOMAIN b : TRUE
         IN  b[x] + BagSize([y \in DOMAIN b \ {x} |-> b[y]])

C4_SecondSnapshotIsEmpty ==
    \A k \in DOMAIN reports :
        (k >= 2 /\ audit[k].ids = {}) =>
            /\ reports[k].total_requests = 0
            /\ reports[k].error_rate = Finite(0)
            /\ reports[k].cache_hit_rate = Finite(0)

\* C4 witness: a first report with two records, errors and cache hits, then
\* a second snapshot with no record in between.
C4_Witness ==
    /\ Len(reports) = 2
    /\ reports[1].total_requests = 2
    /\ reports[1].error_rate = Finite(500)
    /\ reports[1].cache_hit_rate = Finite(1000)
    /\ audit[2].ids = {}

\* C5 as claimed: a report with total_requests = 0 has
\* average_request_latency = 0.
C5_AverageZeroWhenNoRequests ==
    \A k \in DOMAIN reports :
        reports[k].total_requests = 0 =>
            reports[k].average_request_latency = Finite(0)

\* the sum of response_time - request_time over bag b
RECURSIVE LatencySum(_)
LatencySum(b) ==
    IF DOMAIN b = {} THEN 0
    ELSE LET x == CHOOSE x \in DOMAIN b : TRUE
         IN  b[x] * (x.response_time - x.request_time)
                + LatencySum([y \in DOMAIN b \ {x} |-> b[y]])

\* m thousandths is r = num / den rounded to 3 decimals: 1000 * r is within
\* one half of m
IsRounded3(m, num, den) ==
    /\ 2 * (1000 * num - m * den) <= den
    /\ 2 * (m * den - 1000 * num) <= den

\* C6 as claimed: for total_requests > 0 the report's average latency is the
\* sum of response_time - request_time over the period's records divided by
\* their count, with no unit conversion.
C6_AverageIsSumOverCount ==
    \A k \in DOMAIN reports :
        reports[k].total_requests > 0 =>
            /\ reports[k].average_request_latency.cls = "finite"
            /\ IsRounded3(reports[k].average_request_latency.milli,
                          LatencySum(audit[k].args),
                          reports[k].total_requests)

\* the number of copies in bag b of the elements of S
RECURSIVE BagCount(_, _)
BagCount(b, S) ==
    IF S \cap DOMAIN b = {} THEN 0
    ELSE LET x == CHOOSE x \in S \cap DOMAIN b : TRUE
         IN  b[x] + BagCount(b, S \ {x})

\* the decimal form of the status codes of StatusCodes
DecimalKey(c) ==
    CASE c = 0 -> "0" [] c = 200 -> "200" [] c = 500 -> "500"

\* C7: "0" is never a key of a report's http_status_codes; a status code
\* other than 0 passed N > 0 times since the last reset is a key with count
\* N, and no other key appears.
C7_StatusCodeHistogram ==
    \A k \in DOMAIN reports :
        LET codes == reports[k].http_status_codes
            N(c) == BagCount(audit[k].args,
                             {a \in RecordArgs : a.status_code = c})
        IN  /\ "0" \notin DOMAIN codes
            /\ \A c \in StatusCodes \ {0} :
                  IF N(c) > 0
                  THEN DecimalKey(c) \in DOMAIN codes
                          /\ codes[DecimalKey(c)] = N(c)
                  ELSE DecimalKey(c) \notin DOMAIN codes
            /\ DOMAIN codes \subseteq {DecimalKey(c) : c \in StatusCodes \ {0}}

\* C7 witness: a report of a period with one record of status code 0 and one
\* of status code 500.
C7_Witness ==
    \E k \in DOMAIN reports :
        /\ \E a \in DOMAIN audit[k].args : a.status_code = 0
        /\ DOMAIN reports[k].http_status_codes = {"500"}
        /\ reports[k].http_status_codes["500"] = 1

\* C8: cache_hit <= successful_requests in every state, with equality exactly
\* when no record since the last reset was a plain Successful; in every
\* report cache_hit <= total_requests minus the four exception counts.
C8_CacheHitsWithinSuccesses ==
    /\ inner.base.cache_hit <= inner.base.successful_requests
    /\ inner.base.cache_hit = inner.base.successful_requests
          <=> \A a \in DOMAIN heldArgs : a.result # "Successful"
    /\ \A k \in DOMAIN reports :
          LET e == reports[k].exception_types
          IN  reports[k].cache_hit <=
                 reports[k].total_requests
                    - (e.connection_error + e.timeout_error + e.parse_error
                         + e.status_code_error)

\* C8 witness: two successes in the counters, one of them a cache hit.
C8_Witness ==
    /\ inner.base.successful_requests = 2
    /\ inner.base.cache_hit = 1

\* the results that are errors, successes, cache hits
ErrorArgs ==
    {a \in RecordArgs :
        a.result \in {"ParseError", "TimeoutError", "ConnectionError",
                      "StatusCodeError"}}
SuccessArgs ==
    {a \in RecordArgs : a.result \in {"Successful", "SuccessfulAndCache"}}
CacheArgs == {a \in RecordArgs : a.result = "SuccessfulAndCache"}

Range(hs) == {hs[i] : i \in DOMAIN hs}

\* C10: every host of the host list passed has an entry in the report's
\* hosts_ping_delay; a host that does not parse, or whose connect fails or
\* times out, has the timeout itself, 3000 ms, and the hosts after it are
\* still probed; a host whose connect succeeds has the elapsed time.
C10_EveryHostHasAnEntry ==
    \A k \in DOMAIN reports :
        LET delay == reports[k].hosts_ping_delay
            probes == audit[k].probes
        IN  /\ DOMAIN delay = Range(audit[k].given)
            /\ Len(probes) = Len(audit[k].given)
            /\ \A i \in DOMAIN probes :
                  LET h == probes[i].host
                      failed == \/ h \notin SocketAddrHosts \cup IpAddrHosts
                                \/ ~probes[i].net.ok
                  IN  /\ h = audit[k].given[i]
                      /\ failed => delay[h] = Finite(3000 * 1000)
                      /\ ~failed => delay[h] = Finite(probes[i].net.micros)

\* C10 witness: the first host of the list does not parse and the second
\* one connects: both have an entry, the first the timeout.
C10_Witness ==
    \E k \in DOMAIN reports :
        /\ audit[k].given = <<"ssss", "10.0.0.2">>
        /\ reports[k].hosts_ping_delay["ssss"] = Finite(3000000)
        /\ reports[k].hosts_ping_delay["10.0.0.2"] = Finite(600)

\* C17: the time periods of the reports are contiguous: the first report's
\* time_period.start is the store's init_time, and every later report's
\* time_period.start is the time_period.end of the report before it, however
\* the record and snapshot calls interleave.
C17_TimePeriodsContiguous ==
    /\ Len(reports) >= 1 => reports[1].time_period.start = inner.init_time
    /\ \A i \in 2..Len(reports) :
          reports[i].time_period.start = reports[i - 1].time_period.end

\* two reports, the first closing later than the store was created, the
\* second covering a record call
C17_Witness ==
    /\ Len(reports) = 2
    /\ reports[1].time_period.end > reports[1].time_period.start
    /\ reports[2].time_period.start = reports[1].time_period.end
    /\ audit[2].ids # {}

\* the five category counters of InnerStatsVal
CategoryFields ==
    {"successful_requests", "parse_errors", "timeout_errors",
     "connection_errors", "status_code_error"}

\* the count of status code k in histogram m
CodeCount(m, k) == IF k \in DOMAIN m THEN m[k] ELSE 0

\* counters c are counters b after one record call with arguments a, as far
\* as the frame goes
RecordFrame(b, c, a) ==
    /\ c.total_requests = b.total_requests + 1
    /\ \E k \in CategoryFields :
          /\ c[k] = b[k] + 1
          /\ \A j \in CategoryFields \ {k} : c[j] = b[j]
    /\ c.cache_hit =
          b.cache_hit + (IF a.result = "SuccessfulAndCache" THEN 1 ELSE 0)
    /\ LET codes == DOMAIN b.http_status_codes \cup DOMAIN c.http_status_codes
           changed == {k \in codes :
                          CodeCount(c.http_status_codes, k)
                            # CodeCount(b.http_status_codes, k)}
       IN  /\ Cardinality(changed) <= 1
           /\ \A k \in changed :
                 CodeCount(c.http_status_codes, k)
                   = CodeCount(b.http_status_codes, k) + 1

\* C18: frame of a record call: it adds 1 to total_requests, 1 to exactly
\* one of the five category counters (and 1 to cache_hit exactly when the
\* result is SuccessfulAndCache), 1 to at most one histogram entry, and
\* leaves the other category counters, the other histogram entries,
\* start_time and init_time as they were.
C18_RecordFrame ==
    [][done' # done =>
         /\ \E a \in RecordArgs :
               /\ heldArgs' = BagAdd(heldArgs, a)
               /\ RecordFrame(inner.base, inner'.base, a)
         /\ inner'.start_time = inner.start_time
         /\ inner'.init_time = inner.init_time]_vars

\* a SuccessfulAndCache call and a StatusCodeError call with status code 0
\* have both been counted
C18_Witness ==
    /\ inner.base.total_requests = 2
    /\ inner.base.cache_hit = 1
    /\ inner.base.status_code_error = 1
    /\ Cardinality(DOMAIN inner.base.http_status_codes) = 1

\* C19: what a snapshot does to the store: when to_stats_and_reset returns,
\* the seven counters and the latency sum are 0 and the histogram is empty,
\* start_time is the report's time_period.end, and the report's
\* runtime_duration is (end - init_time) / 1000; no operation changes
\* init_time.
C19_SnapshotClearsStore ==
    [][/\ inner'.init_time = inner.init_time
       /\ Len(reports') > Len(reports) =>
             LET r == reports'[Len(reports')]
             IN  /\ inner'.base = InnerStatsValDefault
                 /\ inner'.start_time = r.time_period.end
                 /\ r.runtime_duration
                       = (r.time_period.end - inner.init_time) \div 1000]_vars

\* a second report whose period starts after the store was created, so that
\* its run time is longer than its period, with the counters cleared after a
\* record call
C19_Witness ==
    /\ Len(reports) = 2
    /\ audit[2].ids # {}
    /\ reports[2].time_period.start > inner.init_time
    /\ reports[2].runtime_duration = 1
    /\ inner.base = InnerStatsValDefault
    /\ inner.start_time = reports[2].time_period.end

\* C15: a record call never fails: whatever request_time and response_time
\* in the i64 range it is given and whatever the counters hold, update_stats
\* completes, also when response_time - request_time or the accumulated
\* total_latency leaves the i64 range.
C15_RecordNeverFails == wide.panics = 0

\* n copies of step
Times(n, step) == [i \in 1..n |-> step]

\* the steps of a whole cycle that probes n hosts and sweeps m paths
FullTrail(n, m) ==
    <<"get_hosts", "get_base", "call">> \o Times(n, "probe")
        \o <<"snapshot", "reset", "send">> \o Times(m, "clean")

\* the number of clean_paths of scheduler thread s
PathCount(s) ==
    IF loop[s].clean_paths.some THEN Len(loop[s].clean_paths.paths) ELSE 0

\* C11: every reporting cycle runs all its steps in order and goes back to
\* the sleep, whatever fails: when the host callback fails the report of
\* that cycle has no ping entries, and the snapshot and the send still take
\* place (a cycle whose callback succeeds has an entry per host); a failed
\* send does not stop the clean-up; a clean-up that fails for one path does
\* not stop the next path or the next cycle.  The scheduler thread never
\* ends.
C11_CycleRunsAllSteps ==
    \A s \in Snappers :
        /\ loop[s].pc # "dead"
        /\ (loop[s].pc = "sleep" /\ journal.cycle > 0) =>
              LET k == journal.cycle
              IN  /\ ~journal.open
                  /\ Len(reports) = k
                  /\ Len(sink) = k
                  /\ journal.trail
                        = FullTrail(Len(audit[k].given), PathCount(s))
                  /\ IF "get_hosts" \in journal.failed
                     THEN DOMAIN reports[k].hosts_ping_delay = {}
                     ELSE \E r \in HostResults :
                            /\ r.ok
                            /\ audit[k].given = r.hosts
                            /\ DOMAIN reports[k].hosts_ping_delay
                                  = Range(r.hosts)

\* the second cycle is over and probed a host, after a first cycle in which
\* the callback, the send and a clean-up failed
C11_Witness ==
    /\ loop["s1"].pc = "sleep"
    /\ journal.cycle = 2
    /\ journal.earlier = {"get_hosts", "send", "clean"}
    /\ journal.failed = {"clean"}
    /\ journal.trail = FullTrail(1, 2)
    /\ DOMAIN reports[1].hosts_ping_delay = {}
    /\ DOMAIN reports[2].hosts_ping_delay # {}

\* C12: in every cycle the serialized report is handed to the push channel
\* exactly once, in the order of the reports; a failed send is not repeated
\* in the cycle, and the counters the snapshot cleared are not restored: no
\* record call is in two reports or both in a report and in the counters,
\* and each report counts exactly the calls it covers.
C12_OneSendPerCycle ==
    /\ Len(sink) <= Len(reports)
    /\ \A k \in DOMAIN sink : sink[k].msg = to_json(reports[k])
    /\ \A s \in Snappers :
          /\ loop[s].pc = "send" => Len(sink) = Len(reports) - 1
          /\ loop[s].pc \in {"clean", "sleep"} => Len(sink) = Len(reports)
    /\ \A j, k \in DOMAIN audit : j # k => audit[j].ids \cap audit[k].ids = {}
    /\ heldIds \cap ReportedIds = {}
    /\ \A k \in DOMAIN reports :
          reports[k].total_requests = Cardinality(audit[k].ids)

\* two cycles are over; the first send failed, and both reports cover a
\* record call
C12_Witness ==
    /\ loop["s1"].pc = "sleep"
    /\ Len(sink) = 2
    /\ ~sink[1].ok
    /\ audit[1].ids # {}
    /\ audit[2].ids # {}

\* the scheduler threads that are in a cycle
Reporting == {s \in Snappers : loop[s].pc \notin {"none", "sleep", "dead"}}

\* the place of a step in the cycle
StepRank(step) ==
    CASE step = "get_hosts" -> 1
      [] step = "get_base" -> 2
      [] step = "call" -> 3
      [] step = "probe" -> 4
      [] step = "snapshot" -> 5
      [] step = "reset" -> 6
      [] step = "send" -> 7
      [] step = "clean" -> 8

\* trail takes the steps in the order of the cycle: only probe and clean
\* repeat, and only probe and clean can be left out
InOrder(trail) ==
    /\ trail # << >> => trail[1] = "get_hosts"
    /\ \A i \in 1..(Len(trail) - 1) :
          \/ /\ trail[i + 1] = trail[i]
             /\ trail[i] \in {"probe", "clean"}
          \/ StepRank(trail[i + 1]) = StepRank(trail[i]) + 1
          \/ trail[i] = "call" /\ trail[i + 1] = "snapshot"

\* C13: the scheduler never runs two cycles at once: there is one loop, a
\* cycle goes host callback, base callback, probes, snapshot and reset, send,
\* clean-up, and a new cycle begins only when the one before is over.
C13_OneCycleAtATime ==
    /\ [](/\ Cardinality({s \in Snappers : loop[s].pc # "none"}) <= 1
          /\ Cardinality(Reporting) <= 1
          /\ journal.open <=> Reporting # {}
          /\ InOrder(journal.trail))
    /\ [][journal'.cycle # journal.cycle => ~journal.open]_vars

\* the second cycle has taken all its steps while the other caller of
\* init_spider_vars got an error
C13_Witness ==
    /\ \E i \in Initers : init[i].pc = "err"
    /\ journal.cycle = 2
    /\ journal.open
    /\ journal.trail = FullTrail(1, 2)

\* C14: of the calls of init_spider_vars, one after the other or at the same
\* time, exactly the first succeeds: every other call returns an error,
\* leaves the push handle and the callbacks as the first call set them, and
\* spawns no scheduler thread.
C14_InitOnce ==
    /\ tally.ok <= 1
    /\ tally.spawned <= 1
    /\ \A i \in Initers :
          /\ init[i].pc = "ok" => i = tally.first
          /\ init[i].pc = "err" => i # tally.first
    /\ (\A i \in Initers : init[i].pc \in {"ok", "err"}) => tally.ok = 1
    /\ registry.push \in {"unset", tally.first}
    /\ registry.get_hosts \in {"unset", tally.first}
    /\ registry.get_base \in {"unset", tally.first}
    /\ \A s \in Snappers : loop[s].pc # "none" => s = LoopOf(tally.first)

\* both calls have returned, one with Ok and one with an error, and the one
\* scheduler thread is in its second cycle
C14_Witness ==
    /\ \E i, j \in Initers : init[i].pc = "ok" /\ init[j].pc = "err"
    /\ registry.get_base = tally.first
    /\ journal.cycle = 2
    /\ Cardinality(Reporting) = 1

\* C16: a use of the aggregator before init_spider_vars has completed does
\* not go through as a normal operation: no record call is counted before
\* a call of init_spider_vars has returned Ok.
C16_NoUseBeforeInit ==
    (\A i \in Initers : init[i].pc # "ok") => done = {} /\ heldIds = {}

\* C20: the Mutex is held only while the counters are read and cleared: not
\* while the scheduler thread sleeps, calls the callbacks, probes hosts,
\* serializes and sends the report or cleans up; so a record call that
\* waits for the lock can take it whenever no snapshot is between its build
\* and its reset.
C20_LockOnlyAroundSnapshot ==
    /\ \A s \in Snappers :
          lock = s => loop[s].pc = "to_stats_and_reset" /\ pc[s] = "built"
    /\ (\A s \in Snappers : pc[s] # "built") => MutexFree

\* a record call was counted while the scheduler thread had a host still
\* to probe
C20_Witness ==
    /\ loop["s1"].pc = "to_stats_and_reset"
    /\ pc["s1"] = "probe"
    /\ snap["s1"].hosts # << >>
    /\ heldIds \ snap["s1"].must # {}

\* the scheduler thread "s1" has been spawned
LoopStarted == loop["s1"].pc # "none"

\* after every cycle but the last one within MaxSnaps another cycle starts
LiveCycles ==
    \A k \in 1..(MaxSnaps - 1) :
        (journal.cycle = k /\ ~journal.open) ~> (journal.cycle = k + 1)

\* every record call in progress while the scheduler runs completes
LiveRecords ==
    \A id \in 1..MaxRecords :
        (LoopStarted /\ cur["p1"] = id) ~> (id \in done)

\* every completed record is reported, as long as a snapshot within MaxSnaps
\* is still to come
LiveReported ==
    \A id \in 1..MaxRecords :
        (LoopStarted /\ loop["s1"].pc # "dead" /\ id \in done
           /\ journal.cycle < MaxSnaps) ~> (id \in ReportedIds)

\* C21: once the scheduler loop has started, under fair scheduling and with
\* collaborators that return, after every cycle another cycle eventually
\* starts, every record call eventually acquires the lock and completes, and
\* every completed record is eventually included in exactly one report.
\* Stated as what no step of a run may do if that is to hold: while the
\* scheduler runs, no step ends the scheduler thread, no step ends a record
\* call that has not completed (such a call never completes, so LiveRecords
\* fails for it), and no step puts a record into a second report.
C21_ReportingIsLive ==
    [][LoopStarted =>
         /\ loop'["s1"].pc # "dead"
         /\ \A p \in Producers :
               pc'[p] = "panicked" => pc[p] = "panicked"
         /\ \A j, k \in DOMAIN audit' :
               j # k => audit'[j].ids \cap audit'[k].ids = {}]_vars
====
